---------------------------- MODULE Spec2Model ----------------------------
(***************************************************************************)
(* Two independent flows of the metadata-catalog web application:          *)
(*                                                                         *)
(*   - the compliance client (wherehows-web/app/utils/api/datasets/        *)
(*     compliance.ts): async functions that read and save a dataset's      *)
(*     compliance policy over a JSON/REST backend;                         *)
(*   - the link list (datahub-web-react/.../Documentation/components/      *)
(*     LinkList.tsx): a React component whose handlers delete and edit the *)
(*     institutional-memory links of an entity through GraphQL mutations.  *)
(*                                                                         *)
(* Every await of the source is a position (pc) of the running call; the   *)
(* step that settles the awaited request runs the code up to the next      *)
(* await or to the end of the function.                                    *)
(***************************************************************************)
EXTENDS Naturals, Sequences, FiniteSets

VARIABLES
    call,               \* the compliance-client call in progress (or idle)
    tasks,              \* the LinkList handler invocations, in start order
    editModalVisble,    \* LinkList state: the edit dialog is shown
    initialValues,      \* LinkList state: the edit form's initial values
    linkDetails,        \* LinkList state: the link being edited
    userUrn,            \* useUserContext()?.urn
    mutationUrn,        \* useMutationUrn()
    refetchSupplied,    \* the refetch prop is given
    refetchPending,     \* a refetch of the entity data is in flight
    links,              \* entityData.institutionalMemory.elements (displayed)
    backend             \* the links the backend holds

complianceVars == <<call>>
linkVars == <<tasks, editModalVisble, initialValues, linkDetails, userUrn,
              mutationUrn, refetchSupplied, refetchPending, links, backend>>
vars == <<call, tasks, editModalVisble, initialValues, linkDetails, userUrn,
          mutationUrn, refetchSupplied, refetchPending, links, backend>>

(***************************************************************************)
(* Values.  Every JavaScript value is a record, so that any two of them    *)
(* can be compared.                                                        *)
(***************************************************************************)
Undefined == [type |-> "undefined"]
EmptyObject == [type |-> "object"]

Urns == {"urn:li:dataset:1", "urn:li:dataset:2"}

\* IComplianceInfo: the retention fields and one classification field.
ComplianceInfos ==
    [type : {"complianceInfo"},
     datasetUrn : Urns,
     complianceType : {"", "AUTO_PURGE"},
     compliancePurgeNote : {"", "note"},
     confidentiality : {"null", "CONFIDENTIAL"}]

ComplianceSuggestions ==
    [type : {"complianceSuggestion"}, urn : Urns, lastModified : {1}]

\* What a request can be rejected with.
ApiErrors ==
    [type : {"ApiError"}, status : {401, 404, 500}] \cup
    [type : {"Error"}, status : {0}]

initialComplianceObjectFactory(urn) ==
    [type |-> "complianceInfo",
     datasetUrn |-> urn,
     complianceType |-> "",
     compliancePurgeNote |-> "",
     confidentiality |-> "null"]

isNotFoundApiError(e) == e.type = "ApiError" /\ e.status = 404

datasetUrlByUrn(urn) == <<"datasets", urn>>

datasetComplianceUrlByUrn(urn) == datasetUrlByUrn(urn) \o <<"compliance">>

datasetComplianceSuggestionUrlByUrn(urn) ==
    datasetUrlByUrn(urn) \o <<"compliance", "suggestion">>

datasetRetentionUrlByUrn(urn) == datasetUrlByUrn(urn) \o <<"retention">>

nullifyRetentionFieldsOnComplianceInfo(complianceInfo) ==
    [complianceInfo EXCEPT !.complianceType = "null",
                           !.compliancePurgeNote = "null"]

extractRetentionFromComplianceInfo(complianceInfo) ==
    [type |-> "retention",
     datasetUrn |-> complianceInfo.datasetUrn,
     purgeNote |-> complianceInfo.compliancePurgeNote,
     purgeType |-> complianceInfo.complianceType]

\* A settled request: fulfilled with a body, or rejected with an error.
Fulfilled(body) == [ok |-> TRUE, body |-> body, error |-> Undefined]
Rejected(e) == [ok |-> FALSE, body |-> Undefined, error |-> e]

\* The responses of GET .../compliance: an object whose complianceInfo is a
\* policy or is missing, or a failure.
ComplianceGetResponses ==
    {Fulfilled([complianceInfo |-> p]) : p \in ComplianceInfos \cup {Undefined}}
    \cup {Rejected(e) : e \in ApiErrors}

\* The responses of GET .../compliance/suggestion.
SuggestionGetResponses ==
    {Fulfilled([complianceSuggestion |-> s]) :
        s \in ComplianceSuggestions \cup {Undefined}}
    \cup {Rejected(e) : e \in ApiErrors}

\* The responses of a POST: no body, or a failure.
PostResponses == {Fulfilled(Undefined)} \cup {Rejected(e) : e \in ApiErrors}

\* How a call of an async function ends.
Resolves(v) == [state |-> "resolved", value |-> v, error |-> Undefined]
Rejects(e) == [state |-> "rejected", value |-> Undefined, error |-> e]
Pending == [state |-> "pending", value |-> Undefined, error |-> Undefined]

Request(method, url, data) == [method |-> method, url |-> url, data |-> data]

IdleCall ==
    [fn |-> "none", pc |-> "idle", urn |-> "", complianceInfo |-> Undefined,
     requests |-> <<>>, responses |-> <<>>, outcome |-> Pending]

(***************************************************************************)
(* readDatasetComplianceByUrn                                              *)
(***************************************************************************)
\* Mutant: the not-found branch forgets to flag the policy as new.
ReadResultNotFlagged(urn, response) ==
    IF response.ok
    THEN Resolves([isNewComplianceInfo |-> FALSE,
                   complianceInfo |-> response.body.complianceInfo])
    ELSE IF isNotFoundApiError(response.error)
         THEN Resolves([isNewComplianceInfo |-> FALSE,
                        complianceInfo |-> initialComplianceObjectFactory(urn)])
         ELSE Rejects(response.error)

\* Mutant: the response's policy is dropped and the initial value kept.
ReadResultKeepsInitial(urn, response) ==
    IF response.ok
    THEN Resolves([isNewComplianceInfo |-> FALSE,
                   complianceInfo |-> initialComplianceObjectFactory(urn)])
    ELSE IF isNotFoundApiError(response.error)
         THEN Resolves([isNewComplianceInfo |-> TRUE,
                        complianceInfo |-> initialComplianceObjectFactory(urn)])
         ELSE Rejects(response.error)

\* Mutant: every failure takes the not-found branch.
ReadResultSwallowsAll(urn, response) ==
    IF response.ok
    THEN Resolves([isNewComplianceInfo |-> FALSE,
                   complianceInfo |-> response.body.complianceInfo])
    ELSE Resolves([isNewComplianceInfo |-> TRUE,
                   complianceInfo |-> initialComplianceObjectFactory(urn)])

\* Lines 73-86: what the call ends with, given how the getJSON settled.
ReadResult(urn, response) ==
    IF response.ok
    THEN Resolves([isNewComplianceInfo |-> FALSE,
                   complianceInfo |-> response.body.complianceInfo])
    ELSE IF isNotFoundApiError(response.error)
         THEN Resolves([isNewComplianceInfo |-> TRUE,
                        complianceInfo |-> initialComplianceObjectFactory(urn)])
         ELSE Rejects(response.error)

\* Lines 69-76: the call starts and issues the GET.
readDatasetComplianceByUrn(urn) ==
    /\ call.pc = "idle"
    /\ call' = [IdleCall EXCEPT
                  !.fn = "readDatasetComplianceByUrn",
                  !.pc = "awaitGet",
                  !.urn = urn,
                  !.requests =
                      <<Request("GET", datasetComplianceUrlByUrn(urn), Undefined)>>]
    /\ UNCHANGED linkVars

readDatasetComplianceByUrnSettles(response) ==
    /\ call.fn = "readDatasetComplianceByUrn"
    /\ call.pc = "awaitGet"
    /\ call' = [call EXCEPT
                  !.pc = "settled",
                  !.responses = Append(@, response),
                  !.outcome = ReadResult(call.urn, response)]
    /\ UNCHANGED linkVars

(***************************************************************************)
(* saveDatasetComplianceByUrn                                              *)
(***************************************************************************)
\* Mutant: the policy is posted with its retention fields left in.
saveDatasetComplianceByUrnUnstripped(urn, complianceInfo) ==
    /\ call.pc = "idle"
    /\ call' = [IdleCall EXCEPT
                  !.fn = "saveDatasetComplianceByUrn",
                  !.pc = "awaitPolicyPost",
                  !.urn = urn,
                  !.complianceInfo = complianceInfo,
                  !.requests =
                      <<Request("POST", datasetComplianceUrlByUrn(urn),
                                complianceInfo)>>]
    /\ UNCHANGED linkVars

\* Lines 95-99: the call starts and posts the policy without its retention
\* fields.
saveDatasetComplianceByUrn(urn, complianceInfo) ==
    /\ call.pc = "idle"
    /\ call' = [IdleCall EXCEPT
                  !.fn = "saveDatasetComplianceByUrn",
                  !.pc = "awaitPolicyPost",
                  !.urn = urn,
                  !.complianceInfo = complianceInfo,
                  !.requests =
                      <<Request("POST", datasetComplianceUrlByUrn(urn),
                                nullifyRetentionFieldsOnComplianceInfo(complianceInfo))>>]
    /\ UNCHANGED linkVars

\* saveDatasetRetentionByUrn(urn, retention): one POST to the retention
\* endpoint of urn.
saveDatasetRetentionByUrn(urn, retention) ==
    Request("POST", datasetRetentionUrlByUrn(urn), retention)

\* Lines 96-100: the policy POST settles. A rejection ends the call; otherwise
\* the retention is posted.
savePolicyPostSettles(response) ==
    /\ call.fn = "saveDatasetComplianceByUrn"
    /\ call.pc = "awaitPolicyPost"
    /\ IF response.ok
       THEN call' = [call EXCEPT
                       !.pc = "awaitRetentionPost",
                       !.responses = Append(@, response),
                       !.requests = Append(@,
                           saveDatasetRetentionByUrn(call.urn,
                               extractRetentionFromComplianceInfo(call.complianceInfo)))]
       ELSE call' = [call EXCEPT
                       !.pc = "settled",
                       !.responses = Append(@, response),
                       !.outcome = Rejects(response.error)]
    /\ UNCHANGED linkVars

\* Lines 100-101: the retention POST settles and the call ends with it.
saveRetentionPostSettles(response) ==
    /\ call.fn = "saveDatasetComplianceByUrn"
    /\ call.pc = "awaitRetentionPost"
    /\ call' = [call EXCEPT
                  !.pc = "settled",
                  !.responses = Append(@, response),
                  !.outcome = IF response.ok THEN Resolves(Undefined)
                                             ELSE Rejects(response.error)]
    /\ UNCHANGED linkVars

(***************************************************************************)
(* readDatasetComplianceSuggestionByUrn                                    *)
(***************************************************************************)
\* Mutant: the failure is rethrown, as readDatasetComplianceByUrn does.
SuggestionResultRethrows(response) ==
    IF response.ok
    THEN Resolves(IF response.body.complianceSuggestion = Undefined
                  THEN EmptyObject
                  ELSE response.body.complianceSuggestion)
    ELSE Rejects(response.error)

\* Lines 122-132: the destructuring default applies to a missing
\* complianceSuggestion; the catch returns the initial empty object.
SuggestionResult(response) ==
    IF response.ok
    THEN Resolves(IF response.body.complianceSuggestion = Undefined
                  THEN EmptyObject
                  ELSE response.body.complianceSuggestion)
    ELSE Resolves(EmptyObject)

\* Lines 121-127: the call starts and issues the GET.
readDatasetComplianceSuggestionByUrn(urn) ==
    /\ call.pc = "idle"
    /\ call' = [IdleCall EXCEPT
                  !.fn = "readDatasetComplianceSuggestionByUrn",
                  !.pc = "awaitGet",
                  !.urn = urn,
                  !.requests =
                      <<Request("GET", datasetComplianceSuggestionUrlByUrn(urn),
                                Undefined)>>]
    /\ UNCHANGED linkVars

readDatasetComplianceSuggestionByUrnSettles(response) ==
    /\ call.fn = "readDatasetComplianceSuggestionByUrn"
    /\ call.pc = "awaitGet"
    /\ call' = [call EXCEPT
                  !.pc = "settled",
                  !.responses = Append(@, response),
                  !.outcome = SuggestionResult(response)]
    /\ UNCHANGED linkVars

\* The caller has the settled promise; the next call can start.
CallReturns ==
    /\ call.pc = "settled"
    /\ call' = IdleCall
    /\ UNCHANGED linkVars

ComplianceNext ==
    \/ \E urn \in Urns : readDatasetComplianceByUrn(urn)
    \/ \E response \in ComplianceGetResponses :
           readDatasetComplianceByUrnSettles(response)
    \/ \E urn \in Urns, complianceInfo \in ComplianceInfos :
           saveDatasetComplianceByUrn(urn, complianceInfo)
    \/ \E response \in PostResponses : savePolicyPostSettles(response)
    \/ \E response \in PostResponses : saveRetentionPostSettles(response)
    \/ \E urn \in Urns : readDatasetComplianceSuggestionByUrn(urn)
    \/ \E response \in SuggestionGetResponses :
           readDatasetComplianceSuggestionByUrnSettles(response)
    \/ CallReturns

(***************************************************************************)
(* LinkList                                                                *)
(***************************************************************************)
MaxTasks == 2

EntityUrn == "urn:li:dataset:e"
SiblingUrn == "urn:li:dataset:s"
UserUrn == "urn:li:corpuser:u"

\* A link as the backend holds it, under the resource it is attached to.
StoredLink(url, label, resourceUrn) ==
    [url |-> url, label |-> label, resourceUrn |-> resourceUrn]

\* InstitutionalMemoryMetadata as the component gets it: associatedUrn is ""
\* (absent) for a link of the entity itself.
Metadata(stored) ==
    [url |-> stored.url,
     description |-> stored.label,
     associatedUrn |-> IF stored.resourceUrn = EntityUrn THEN ""
                       ELSE stored.resourceUrn]

InitialBackend ==
    {StoredLink("https://a", "A", EntityUrn),
     StoredLink("https://b", "B", SiblingUrn)}

\* What the user submits in the edit form (url and label are required): the
\* url of the first link with a new label, which for the second link is a
\* new url too.
FormValues ==
    {[url |-> "https://a", label |-> "A2"]}

\* What a mutation can be rejected with: an Error, or a value that is none.
Thrown ==
    {[type |-> "Error", message |-> "Network error"],
     [type |-> "string", message |-> ""]}

MutationResponses == {Fulfilled(Undefined)} \cup {Rejected(e) : e \in Thrown}

instanceofError(e) == e.type = "Error"

\* x || y on strings.
OrElse(x, y) == IF x = "" THEN y ELSE x

\* The backend's removeLink and addLink.
RemoveLinkApplied(stored, input) ==
    {l \in stored : ~(l.url = input.linkUrl /\ l.resourceUrn = input.resourceUrn)}

AddLinkApplied(stored, input) ==
    RemoveLinkApplied(stored, input)
        \cup {StoredLink(input.linkUrl, input.label, input.resourceUrn)}

RemoveLinkRequest(metadata) ==
    [mutation |-> "removeLink",
     input |-> [linkUrl |-> metadata.url,
                resourceUrn |-> OrElse(metadata.associatedUrn, EntityUrn)]]

AddLinkRequest(formData, resourceUrn) ==
    [mutation |-> "addLink",
     input |-> [linkUrl |-> formData.url, label |-> formData.label,
                resourceUrn |-> resourceUrn]]

MessageSuccess(content) == [call |-> "success", content |-> content]
MessageError(content) == [call |-> "error", content |-> content]
MessageDestroy == [call |-> "destroy", content |-> <<>>]

\* An invocation of a handler: what it closed over, where it is, and what it
\* has done so far.
NewTask(handler, metadata, formData) ==
    [handler |-> handler,
     pc |-> "awaitRemove",
     metadata |-> metadata,
     formData |-> formData,
     user |-> userUrn,
     mutationUrn |-> mutationUrn,
     refetch |-> refetchSupplied,
     requests |-> <<RemoveLinkRequest(metadata)>>,
     results |-> <<>>,
     messages |-> <<>>,
     refetches |-> 0,
     events |-> 0,
     closes |-> 0]

\* refetch?.()
CallRefetch(t) == IF t.refetch THEN [t EXCEPT !.refetches = @ + 1] ELSE t

\* The catch blocks: message.destroy(), then message.error for an Error.
Caught(t, prefix, e) ==
    [t EXCEPT !.messages =
        IF instanceofError(e)
        THEN @ \o <<MessageDestroy, MessageError(<<prefix, e.message>>)>>
        ELSE Append(@, MessageDestroy)]

\* Mutant: refetch is called in the try block only.
DeleteRemoveSettledRefetchOnSuccess(t, response) ==
    LET r == [t EXCEPT !.results = Append(@, response), !.pc = "done"]
    IN  IF response.ok
        THEN CallRefetch([r EXCEPT !.messages =
                             Append(@, MessageSuccess("Link Removed"))])
        ELSE Caught(r, "Error removing link: \n ", response.error)

\* handleDeleteLink, lines 55-65: after the removeLink mutation settled.
DeleteRemoveSettled(t, response) ==
    LET r == [t EXCEPT !.results = Append(@, response), !.pc = "done"]
    IN  CallRefetch(
            IF response.ok
            THEN [r EXCEPT !.messages = Append(@, MessageSuccess("Link Removed"))]
            ELSE Caught(r, "Error removing link: \n ", response.error))

\* Mutant: the user is not checked before the link is added.
EditRemoveSettledNoUserCheck(t, response) ==
    LET r == [t EXCEPT !.results = Append(@, response)]
    IN  IF response.ok
        THEN [r EXCEPT !.pc = "awaitAdd",
                       !.requests =
                           Append(@, AddLinkRequest(t.formData, t.mutationUrn))]
        ELSE Caught([r EXCEPT !.pc = "done"], "Error updating link: \n ",
                    response.error)

\* Mutant: the link is added whether or not the removal succeeded.
EditRemoveSettledAddsAnyway(t, response) ==
    LET r == [t EXCEPT !.results = Append(@, response)]
    IN  IF t.user # ""
        THEN [r EXCEPT !.pc = "awaitAdd",
                       !.requests =
                           Append(@, AddLinkRequest(t.formData, t.mutationUrn))]
        ELSE [r EXCEPT !.pc = "done",
                       !.messages =
                           Append(@, MessageError("Error updating link: no user"))]

\* handleEdit, lines 85-92 and 105-114: after the removeLink mutation settled.
EditRemoveSettled(t, response) ==
    LET r == [t EXCEPT !.results = Append(@, response)]
    IN  IF response.ok
        THEN IF t.user # ""
             THEN [r EXCEPT !.pc = "awaitAdd",
                            !.requests =
                                Append(@, AddLinkRequest(t.formData, t.mutationUrn))]
             ELSE [r EXCEPT !.pc = "done",
                            !.messages =
                                Append(@, MessageError("Error updating link: no user"))]
        ELSE Caught([r EXCEPT !.pc = "done"], "Error updating link: \n ",
                    response.error)

\* Mutant: the dialog is closed and the data refetched whatever the outcome.
EditAddSettledAlwaysCloses(t, response) ==
    LET r == [t EXCEPT !.results = Append(@, response), !.pc = "done"]
    IN  IF response.ok
        THEN [CallRefetch([r EXCEPT
                  !.messages = Append(@, MessageSuccess("Link Updated")),
                  !.events = @ + 1])
              EXCEPT !.closes = @ + 1]
        ELSE [CallRefetch(Caught(r, "Error updating link: \n ", response.error))
              EXCEPT !.closes = @ + 1]

\* handleEdit, lines 90-114: after the addLink mutation settled.
EditAddSettled(t, response) ==
    LET r == [t EXCEPT !.results = Append(@, response), !.pc = "done"]
    IN  IF response.ok
        THEN [CallRefetch([r EXCEPT
                  !.messages = Append(@, MessageSuccess("Link Updated")),
                  !.events = @ + 1])
              EXCEPT !.closes = @ + 1]
        ELSE Caught(r, "Error updating link: \n ", response.error)

\* Lines 53-57: the delete button of a displayed link.
handleDeleteLink(metadata) ==
    /\ Len(tasks) < MaxTasks
    /\ tasks' = Append(tasks, NewTask("handleDeleteLink", metadata, Undefined))
    /\ UNCHANGED <<call, editModalVisble, initialValues, linkDetails, userUrn,
                   mutationUrn, refetchSupplied, refetchPending, links, backend>>

\* Lines 55-65: the removeLink of a delete settles.
deleteRemoveLinkSettles(i, response) ==
    /\ tasks[i].handler = "handleDeleteLink"
    /\ tasks[i].pc = "awaitRemove"
    /\ LET t == DeleteRemoveSettled(tasks[i], response)
       IN  /\ tasks' = [tasks EXCEPT ![i] = t]
           /\ refetchPending' = (refetchPending \/ t.refetches > tasks[i].refetches)
    /\ backend' = IF response.ok
                  THEN RemoveLinkApplied(backend, tasks[i].requests[1].input)
                  ELSE backend
    /\ UNCHANGED <<call, editModalVisble, initialValues, linkDetails, userUrn,
                   mutationUrn, refetchSupplied, links>>

\* Lines 68-75: the edit button of a displayed link.
handleEditLink(metadata) ==
    /\ initialValues' = [url |-> metadata.url, label |-> metadata.description]
    /\ linkDetails' = metadata
    /\ editModalVisble' = TRUE
    /\ UNCHANGED <<call, tasks, userUrn, mutationUrn, refetchSupplied,
                   refetchPending, links, backend>>

\* Lines 77-79: Cancel, or closing the dialog.
handleClose ==
    /\ editModalVisble
    /\ editModalVisble' = FALSE
    /\ UNCHANGED <<call, tasks, initialValues, linkDetails, userUrn, mutationUrn,
                   refetchSupplied, refetchPending, links, backend>>

\* Lines 81-87: the form (mounted while the dialog is shown) is submitted.
handleEdit(formData) ==
    /\ editModalVisble
    /\ linkDetails # Undefined
    /\ Len(tasks) < MaxTasks
    /\ tasks' = Append(tasks, NewTask("handleEdit", linkDetails, formData))
    /\ UNCHANGED <<call, editModalVisble, initialValues, linkDetails, userUrn,
                   mutationUrn, refetchSupplied, refetchPending, links, backend>>

\* Lines 85-92, 105-114: the removeLink of an edit settles.
editRemoveLinkSettles(i, response) ==
    /\ tasks[i].handler = "handleEdit"
    /\ tasks[i].pc = "awaitRemove"
    /\ tasks' = [tasks EXCEPT ![i] = EditRemoveSettled(tasks[i], response)]
    /\ backend' = IF response.ok
                  THEN RemoveLinkApplied(backend, tasks[i].requests[1].input)
                  ELSE backend
    /\ UNCHANGED <<call, editModalVisble, initialValues, linkDetails, userUrn,
                   mutationUrn, refetchSupplied, refetchPending, links>>

\* Lines 90-114: the addLink of an edit settles.
editAddLinkSettles(i, response) ==
    /\ tasks[i].handler = "handleEdit"
    /\ tasks[i].pc = "awaitAdd"
    /\ LET t == EditAddSettled(tasks[i], response)
       IN  /\ tasks' = [tasks EXCEPT ![i] = t]
           /\ refetchPending' = (refetchPending \/ t.refetches > tasks[i].refetches)
           /\ editModalVisble' = (editModalVisble /\ t.closes = tasks[i].closes)
    /\ backend' = IF response.ok
                  THEN AddLinkApplied(backend, tasks[i].requests[2].input)
                  ELSE backend
    /\ UNCHANGED <<call, initialValues, linkDetails, userUrn, mutationUrn,
                   refetchSupplied, links>>

\* The refetch of the entity data arrives: the displayed links are the
\* backend's.
refetchSettles ==
    /\ refetchPending
    /\ refetchPending' = FALSE
    /\ links' = {Metadata(l) : l \in backend}
    /\ UNCHANGED <<call, tasks, editModalVisble, initialValues, linkDetails,
                   userUrn, mutationUrn, refetchSupplied, backend>>

LinkListNext ==
    \/ \E metadata \in links : handleDeleteLink(metadata)
    \/ \E i \in DOMAIN tasks, response \in MutationResponses :
           deleteRemoveLinkSettles(i, response)
    \/ \E metadata \in links : handleEditLink(metadata)
    \/ handleClose
    \/ \E formData \in FormValues : handleEdit(formData)
    \/ \E i \in DOMAIN tasks, response \in MutationResponses :
           editRemoveLinkSettles(i, response)
    \/ \E i \in DOMAIN tasks, response \in MutationResponses :
           editAddLinkSettles(i, response)
    \/ refetchSettles

Init ==
    /\ call = IdleCall
    /\ tasks = <<>>
    /\ editModalVisble = FALSE
    /\ initialValues = [url |-> "", label |-> ""]
    /\ linkDetails = Undefined
    /\ userUrn \in {"", UserUrn}
    /\ mutationUrn \in {EntityUrn, SiblingUrn}
    /\ refetchSupplied \in BOOLEAN
    /\ refetchPending = FALSE
    /\ links = {Metadata(l) : l \in InitialBackend}
    /\ backend = InitialBackend

\* The compliance client alone, and the link list alone.
ComplianceSpec == Init /\ [][ComplianceNext]_vars
LinkListSpec == Init /\ [][LinkListNext]_vars

Next == ComplianceNext \/ LinkListNext
Spec == Init /\ [][Next]_vars

(***************************************************************************)
(* Properties of the compliance client                                     *)
(***************************************************************************)
NotFoundError == [type |-> "ApiError", status |-> 404]

ReadSettled ==
    call.fn = "readDatasetComplianceByUrn" /\ call.pc = "settled"

\* C1: a read whose GET fails with a not-found error resolves with the
\* default policy of the same urn and isNewComplianceInfo = TRUE.
C1_NotFoundYieldsDefault ==
    (ReadSettled /\ call.responses[1] = Rejected(NotFoundError))
        => call.outcome =
               Resolves([isNewComplianceInfo |-> TRUE,
                         complianceInfo |->
                             [type |-> "complianceInfo",
                              datasetUrn |-> call.urn,
                              complianceType |-> "",
                              compliancePurgeNote |-> "",
                              confidentiality |-> "null"]])

C1_Witness ==
    /\ ReadSettled
    /\ call.urn = "urn:li:dataset:1"
    /\ call.responses[1] = Rejected(NotFoundError)

\* C2: a read whose GET succeeds resolves with the complianceInfo of the
\* response as it is and isNewComplianceInfo = FALSE.
C2_SuccessYieldsPayload ==
    (ReadSettled /\ call.responses[1].ok)
        => call.outcome =
               Resolves([isNewComplianceInfo |-> FALSE,
                         complianceInfo |-> call.responses[1].body.complianceInfo])

C2_Witness ==
    /\ ReadSettled
    /\ call.responses[1].ok
    /\ call.responses[1].body.complianceInfo \in ComplianceInfos
    /\ call.responses[1].body.complianceInfo.datasetUrn = call.urn
    /\ call.responses[1].body.complianceInfo.complianceType = "AUTO_PURGE"

\* C3: a read whose GET fails with an error other than not-found rejects
\* with that error and produces no result.
C3_OtherErrorsPropagate ==
    (ReadSettled /\ ~call.responses[1].ok
                 /\ call.responses[1].error # NotFoundError)
        => /\ call.outcome.state = "rejected"
           /\ call.outcome.error = call.responses[1].error
           /\ call.outcome.value = Undefined

C3_Witness ==
    /\ ReadSettled
    /\ call.responses[1] = Rejected([type |-> "ApiError", status |-> 500])

\* The two requests of a save, written out from its arguments.
PolicyPostOf(c) ==
    [method |-> "POST",
     url |-> <<"datasets", c.urn, "compliance">>,
     data |-> [type |-> "complianceInfo",
               datasetUrn |-> c.complianceInfo.datasetUrn,
               complianceType |-> "null",
               compliancePurgeNote |-> "null",
               confidentiality |-> c.complianceInfo.confidentiality]]

RetentionPostOf(c) ==
    [method |-> "POST",
     url |-> <<"datasets", c.urn, "retention">>,
     data |-> [type |-> "retention",
               datasetUrn |-> c.complianceInfo.datasetUrn,
               purgeNote |-> c.complianceInfo.compliancePurgeNote,
               purgeType |-> c.complianceInfo.complianceType]]

\* C4, as stated: every save that has ended has posted the stripped policy
\* and then the extracted retention.
C4_SaveAlwaysPostsBoth ==
    (call.fn = "saveDatasetComplianceByUrn" /\ call.pc = "settled")
        => call.requests = <<PolicyPostOf(call), RetentionPostOf(call)>>

\* C4, amended: a save first posts the stripped policy; it posts the
\* extracted retention next exactly when the policy POST succeeded, and a
\* failed policy POST rejects the save with no retention request.
C4_SavePostsRetentionAfterPolicySucceeds ==
    call.fn = "saveDatasetComplianceByUrn"
        => /\ Len(call.requests) \in {1, 2}
           /\ call.requests[1] = PolicyPostOf(call)
           /\ Len(call.requests) = 2
                  <=> (Len(call.responses) >= 1 /\ call.responses[1].ok)
           /\ Len(call.requests) = 2 => call.requests[2] = RetentionPostOf(call)
           /\ (call.pc = "settled" /\ ~call.responses[1].ok)
                  => call.outcome = Rejects(call.responses[1].error)

C4_Witness ==
    /\ call.fn = "saveDatasetComplianceByUrn"
    /\ call.pc = "settled"
    /\ call.complianceInfo.complianceType = "AUTO_PURGE"
    /\ call.complianceInfo.compliancePurgeNote = "note"
    /\ Len(call.requests) = 2
    /\ call.outcome.state = "resolved"

SuggestionSettled ==
    call.fn = "readDatasetComplianceSuggestionByUrn" /\ call.pc = "settled"

\* C5: a suggestion read never rejects; on any failure, and on a response
\* without complianceSuggestion, it resolves to the empty object.
C5_SuggestionNeverRejects ==
    SuggestionSettled
        => /\ call.outcome.state = "resolved"
           /\ ~call.responses[1].ok => call.outcome.value = EmptyObject
           /\ (call.responses[1].ok
                  /\ call.responses[1].body.complianceSuggestion = Undefined)
                  => call.outcome.value = EmptyObject

C5_Witness ==
    /\ SuggestionSettled
    /\ call.responses[1] = Rejected([type |-> "ApiError", status |-> 500])

(***************************************************************************)
(* Properties of the link list                                             *)
(***************************************************************************)
EditTasks == {i \in DOMAIN tasks : tasks[i].handler = "handleEdit"}
DeleteTasks == {i \in DOMAIN tasks : tasks[i].handler = "handleDeleteLink"}

Issued(t, mutation) ==
    {k \in DOMAIN t.requests : t.requests[k].mutation = mutation}

Shown(t, message) == \E k \in DOMAIN t.messages : t.messages[k] = message

RemoveSucceeded(t) == Len(t.results) >= 1 /\ t.results[1].ok
AddSucceeded(t) == Len(t.results) = 2 /\ t.results[2].ok

NoUserNotice == [call |-> "error", content |-> "Error updating link: no user"]

\* The link a task removes, as the backend keys it.
OldLinkStored(t) ==
    \E l \in backend :
        /\ l.url = t.metadata.url
        /\ l.resourceUrn =
               (IF t.metadata.associatedUrn = "" THEN EntityUrn
                ELSE t.metadata.associatedUrn)

\* C6, as stated: an edit submitted without a signed-in user issues no
\* removeLink and no addLink, and ends with an error shown.
C6_NoUserNoWrite ==
    \A i \in EditTasks :
        tasks[i].user = ""
            => /\ tasks[i].requests = <<>>
               /\ tasks[i].pc = "done"
                      => \E k \in DOMAIN tasks[i].messages :
                             tasks[i].messages[k].call = "error"

\* C7: an edit without a signed-in user issues no addLink, and once its
\* removeLink has succeeded it has ended with the 'no user' error shown.
C7_NoUserNoAdd ==
    \A i \in EditTasks :
        tasks[i].user = ""
            => /\ Issued(tasks[i], "addLink") = {}
               /\ RemoveSucceeded(tasks[i])
                      => /\ tasks[i].pc = "done"
                         /\ Shown(tasks[i], NoUserNotice)

C7_Witness ==
    \E i \in EditTasks :
        /\ tasks[i].user = ""
        /\ RemoveSucceeded(tasks[i])
        /\ tasks[i].pc = "done"

\* C8: a delete calls the supplied refetch exactly once, when its removeLink
\* has settled (fulfilled or rejected), and not before.
C8_DeleteRefetchesOnce ==
    \A i \in DeleteTasks :
        /\ tasks[i].pc = "done" <=> Len(tasks[i].results) = 1
        /\ tasks[i].refetches =
               (IF tasks[i].pc = "done" /\ tasks[i].refetch THEN 1 ELSE 0)

C8_Witness ==
    \E i \in DeleteTasks :
        /\ tasks[i].pc = "done"
        /\ ~tasks[i].results[1].ok
        /\ tasks[i].refetches = 1

\* C9: an edit issues one removeLink, then at most one addLink (of the form's
\* values) and only after the removeLink succeeded; an edit that ended
\* without a successful addLink leaves the old link removed unless another
\* handler adds it.
C9_DeleteThenCreateNoRollback ==
    \A i \in EditTasks :
        LET t == tasks[i]
        IN  /\ Len(t.requests) \in {1, 2}
            /\ t.requests[1] =
                   [mutation |-> "removeLink",
                    input |-> [linkUrl |-> t.metadata.url,
                               resourceUrn |->
                                   IF t.metadata.associatedUrn = ""
                                   THEN EntityUrn
                                   ELSE t.metadata.associatedUrn]]
            /\ Len(t.requests) = 2
                   => /\ RemoveSucceeded(t)
                      /\ t.requests[2] =
                             [mutation |-> "addLink",
                              input |-> [linkUrl |-> t.formData.url,
                                         label |-> t.formData.label,
                                         resourceUrn |-> t.mutationUrn]]
            /\ Len(t.results) <= Len(t.requests)
            /\ (/\ t.pc = "done"
                /\ RemoveSucceeded(t)
                /\ ~AddSucceeded(t)
                /\ \A j \in DOMAIN tasks \ {i} :
                       \A k \in Issued(tasks[j], "addLink") :
                           tasks[j].requests[k].input.linkUrl # t.metadata.url)
                   => ~OldLinkStored(t)

C9_Witness ==
    \E i \in EditTasks :
        /\ tasks[i].pc = "done"
        /\ RemoveSucceeded(tasks[i])
        /\ Len(tasks[i].results) = 2
        /\ ~tasks[i].results[2].ok
        /\ ~OldLinkStored(tasks[i])

EditSucceeded(t) == t.user # "" /\ RemoveSucceeded(t) /\ AddSucceeded(t)

\* C10: an edit refetches (when refetch is supplied), emits the analytics
\* event and closes the dialog once, exactly when a user is signed in and
\* both mutations succeeded; otherwise it does none of them.
C10_FollowUpOnlyOnSuccess ==
    \A i \in EditTasks :
        LET t == tasks[i]
            n == IF t.pc = "done" /\ EditSucceeded(t) THEN 1 ELSE 0
        IN  /\ t.events = n
            /\ t.closes = n
            /\ t.refetches = (IF t.refetch THEN n ELSE 0)

\* An edit removed the link and failed to add: the dialog is still open and
\* the list still shows the link the backend no longer has.
C10_Witness ==
    \E i \in EditTasks :
        /\ tasks[i].pc = "done"
        /\ RemoveSucceeded(tasks[i])
        /\ ~EditSucceeded(tasks[i])
        /\ tasks[i].closes = 0
        /\ editModalVisble
        /\ ~refetchPending
        /\ tasks[i].metadata \in links
        /\ ~OldLinkStored(tasks[i])

=============================================================================
